---- MODULE Spec2Model ----
(***************************************************************************)
(* Course-purchase checkout handling of ELEARNY                            *)
(* (server/controllers/coursePurchase.controller.js).                      *)
(*                                                                         *)
(* The four request handlers are modelled as processes over the four       *)
(* MongoDB collections (CoursePurchase, Course, Lecture, User) and the     *)
(* payment provider.  A handler is cut at its awaits: every action is one  *)
(* awaited store/provider operation together with the synchronous code     *)
(* that follows it up to the next await or the response.                   *)
(***************************************************************************)
EXTENDS Integers, Sequences, FiniteSets, TLC

(***************************************************************************)
(* JavaScript Numbers.  A Number is an IEEE-754 binary64 value; the model  *)
(* keeps positive finite values as [m, e] with 2^52 <= m < 2^53 and value  *)
(* m * 2^e (zero is m = <<>>).  The 53-bit significand does not fit TLC's  *)
(* integers, so it is kept as a little-endian sequence of 15-bit limbs.    *)
(***************************************************************************)
MantBits == 53
LimbBits == 15
LimbBase == 2 ^ LimbBits

\* The operators below bind their operands and intermediate results to values
\* (x \in {e}) before using them, so that each is evaluated once.
Only(S) == CHOOSE x \in S : TRUE

RECURSIVE BigOfInt(_)
BigOfInt(n) ==
  Only({IF k = 0 THEN <<>> ELSE <<k % LimbBase>> \o BigOfInt(k \div LimbBase) : k \in {n}})

RECURSIVE BigToInt(_)
BigToInt(a) == IF a = <<>> THEN 0 ELSE a[1] + LimbBase * BigToInt(Tail(a))

RECURSIVE BigNorm(_)
BigNorm(a) ==
  IF a = <<>> THEN a
  ELSE IF a[Len(a)] = 0 THEN BigNorm(SubSeq(a, 1, Len(a) - 1)) ELSE a

Limb(a, i) == IF i <= Len(a) THEN a[i] ELSE 0

Rest(a) == IF a = <<>> THEN a ELSE Tail(a)

\* a + b + c
RECURSIVE BigAddC(_, _, _)
BigAddC(a, b, c) ==
  Only({IF v.a = <<>> /\ v.b = <<>> THEN BigOfInt(v.c)
        ELSE <<v.s % LimbBase>> \o BigAddC(Rest(v.a), Rest(v.b), v.s \div LimbBase) :
        v \in {[a |-> a, b |-> b, c |-> c, s |-> Limb(a, 1) + Limb(b, 1) + c]}})

BigAdd(a, b) == BigAddC(a, b, 0)

\* a - b - w for a >= b + w
RECURSIVE BigSubB(_, _, _)
BigSubB(a, b, w) ==
  Only({IF v.a = <<>> THEN <<>>
        ELSE <<v.d % LimbBase>> \o BigSubB(Tail(v.a), Rest(v.b), IF v.d < 0 THEN 1 ELSE 0) :
        v \in {[a |-> a, b |-> b, d |-> Limb(a, 1) - Limb(b, 1) - w]}})

BigSub(a, b) == Only({BigNorm(d) : d \in {BigSubB(a, b, 0)}})

RECURSIVE BigCmpFrom(_, _, _)
BigCmpFrom(a, b, i) ==
  IF i = 0 THEN 0
  ELSE IF a[i] > b[i] THEN 1
  ELSE IF a[i] < b[i] THEN -1
  ELSE BigCmpFrom(a, b, i - 1)

\* -1, 0, 1 as a < b, a = b, a > b
BigCmp(a, b) ==
  Only({IF Len(v.a) > Len(v.b) THEN 1
        ELSE IF Len(v.a) < Len(v.b) THEN -1
        ELSE BigCmpFrom(v.a, v.b, Len(v.a)) :
        v \in {[a |-> a, b |-> b]}})

RECURSIVE BigMulSmallC(_, _, _)
BigMulSmallC(a, k, c) ==
  Only({IF v.a = <<>> THEN BigOfInt(v.c)
        ELSE <<v.p % LimbBase>> \o BigMulSmallC(Tail(v.a), k, v.p \div LimbBase) :
        v \in {[a |-> a, c |-> c, p |-> Limb(a, 1) * k + c]}})

\* a * k for 0 <= k < LimbBase
BigMulSmall(a, k) == IF k = 0 THEN <<>> ELSE BigMulSmallC(a, k, 0)

\* a * LimbBase + d
BigPush(a, d) == IF a = <<>> THEN BigOfInt(d) ELSE <<d>> \o a

RECURSIVE BigMul(_, _)
BigMul(a, b) ==
  Only({IF v.b = <<>> THEN <<>>
        ELSE BigAdd(BigMulSmall(v.a, v.b[1]), BigPush(BigMul(v.a, Tail(v.b)), 0)) :
        v \in {[a |-> a, b |-> b]}})

\* a * 2^s
BigShl(a, s) ==
  Only({IF v.a = <<>> THEN v.a
        ELSE [i \in 1..(v.s \div LimbBits) |-> 0] \o BigMulSmall(v.a, 2 ^ (v.s % LimbBits)) :
        v \in {[a |-> a, s |-> s]}})

RECURSIVE IntBitLen(_)
IntBitLen(n) == Only({IF k = 0 THEN 0 ELSE 1 + IntBitLen(k \div 2) : k \in {n}})

BigBitLen(a) ==
  IF a = <<>> THEN 0 ELSE LimbBits * (Len(a) - 1) + IntBitLen(a[Len(a)])

\* the largest digit k + j (j < 2^(bit+1)) with (k + j) * b <= r
RECURSIVE QuotientDigit(_, _, _, _)
QuotientDigit(r, b, bit, k) ==
  Only({IF v.bit < 0 THEN v.k
        ELSE IF BigCmp(BigMulSmall(b, v.k + 2 ^ v.bit), r) <= 0
             THEN QuotientDigit(r, b, v.bit - 1, v.k + 2 ^ v.bit)
             ELSE QuotientDigit(r, b, v.bit - 1, v.k) :
        v \in {[bit |-> bit, k |-> k]}})

\* quotient and remainder of a by b > 0, from limb i of a down, q and r those of
\* the limbs above it
RECURSIVE BigDivModFrom(_, _, _, _, _)
BigDivModFrom(a, b, i, q, r) ==
  IF i = 0 THEN [q |-> q, r |-> r]
  ELSE Only({Only({BigDivModFrom(a, b, i - 1, BigPush(q, k), BigSub(r2, BigMulSmall(b, k))) :
                   k \in {QuotientDigit(r2, b, LimbBits - 1, 0)}}) :
             r2 \in {BigPush(r, a[i])}})

BigDivMod(a, b) ==
  Only({BigDivModFrom(v.a, v.b, Len(v.a), <<>>, <<>>) : v \in {[a |-> a, b |-> b]}})

Zero == [m |-> <<>>, e |-> 0]

\* the significand q (with 2^(MantBits-1) <= q, remainder r of the division by d)
\* rounded to nearest, ties to even, and the exponent s that goes with it
RoundSignificand(q, r, d, s) ==
  Only({IF BigBitLen(m) > MantBits
        THEN [m |-> BigDivMod(m, <<2>>).q, e |-> s + 1]
        ELSE [m |-> m, e |-> s] :
        m \in {Only({IF c > 0 \/ (c = 0 /\ q[1] % 2 = 1) THEN BigAdd(q, <<1>>) ELSE q :
                     c \in {BigCmp(BigMulSmall(r, 2), d)}})}})

\* num * 2^s / den, as the division a quotient of MantBits bits is taken from
ScaledNum(num, s) == IF s >= 0 THEN BigShl(num, s) ELSE num
ScaledDen(den, s) == IF s >= 0 THEN den ELSE BigShl(den, 0 - s)

\* quotient and remainder of num * 2^s by den, with the divisor d used
DivScaled(num, den, s) ==
  Only({[qr |-> BigDivMod(ScaledNum(num, s), d), d |-> d] : d \in {ScaledDen(den, s)}})

\* the Number nearest to (num / den) * 2^e0, ties to the even significand
RoundRatio(num, den, e0) ==
  Only({IF v.num = <<>> THEN Zero
        ELSE Only({IF BigBitLen(w.qr.q) <= MantBits
                   THEN RoundSignificand(w.qr.q, w.qr.r, w.d, v.e0 - v.s0)
                   ELSE Only({RoundSignificand(u.qr.q, u.qr.r, u.d, v.e0 - (v.s0 - 1)) :
                              u \in {DivScaled(v.num, v.den, v.s0 - 1)}}) :
                   w \in {DivScaled(v.num, v.den, v.s0)}}) :
        v \in {[num |-> num, den |-> den, e0 |-> e0,
                s0 |-> MantBits + BigBitLen(den) - BigBitLen(num)]}})

\* the Number a decimal literal n/d denotes
NumberOf(n, d) == RoundRatio(BigOfInt(n), BigOfInt(d), 0)

\* x / y
NumDiv(x, y) == Only({RoundRatio(v.x.m, v.y.m, v.x.e - v.y.e) : v \in {[x |-> x, y |-> y]}})

\* x * y
NumMul(x, y) ==
  Only({RoundRatio(BigMul(v.x.m, v.y.m), <<1>>, v.x.e + v.y.e) : v \in {[x |-> x, y |-> y]}})

\* x.toFixed(f): the decimal string n / 10^f, n the integer for which n / 10^f
\* is closest to the exact value of x (the larger n of two)
ToFixed(x, f) ==
  Only({[digits |->
           IF v.x.m = <<>> THEN 0
           ELSE IF v.x.e >= 0 THEN BigToInt(BigShl(v.scaled, v.x.e))
           ELSE BigToInt(BigDivMod(BigAdd(BigMulSmall(v.scaled, 2), BigShl(<<1>>, 0 - v.x.e)),
                                   BigShl(<<1>>, 1 - v.x.e)).q),
         scale |-> f] :
        v \in {Only({[x |-> x1, scaled |-> BigMul(x1.m, BigOfInt(10 ^ f))] : x1 \in {x}})}})

\* ToNumber of a decimal string (the coercion `*` applies to its string operand)
StringToNumber(s) == Only({NumberOf(v.digits, 10 ^ v.scale) : v \in {s}})

\* the literals 3.32 and 100
Divisor == NumberOf(332, 100)
Hundred == NumberOf(100, 1)

\* (course.coursePrice / 3.32).toFixed(2) * 100
ConvertedPrice(price) == NumMul(StringToNumber(ToFixed(NumDiv(price, Divisor), 2)), Hundred)

(***************************************************************************)
(* The catalogue and the requests the handlers are driven with.            *)
(***************************************************************************)
MaxCheckouts == 2
MaxPriceTenths == 340

UserIds == {"u1", "u2"}
\* the ids of the Course collection; courses are never removed by a handler
CourseIds == {"c1", "c2"}
\* a well-formed course id no Course document has
UnknownCourseId == "c9"
LectureIds == {"l1", "l2", "l3"}
\* course.lectures; l3 belongs to a course outside the catalogue
CourseLectures == [c \in CourseIds |-> IF c = "c1" THEN <<"l1", "l2">> ELSE <<>>]
\* course.coursePrice: 33.2 and 15
CataloguePrice == [c \in CourseIds |-> IF c = "c1" THEN NumberOf(332, 10) ELSE NumberOf(15, 1)]
\* the prices the conversion is examined on: 0.1, 0.2, ... in steps of 0.1
PriceInputs == {NumberOf(k, 10) : k \in 1..MaxPriceTenths}
\* ids the provider gives its checkout sessions, in the order it issues them
SessionIds == 1..MaxCheckouts
\* session.amount_total of a completed session, in minor units
AmountTotals == {0, 1000}

Range(seq) == {seq[i] : i \in 1..Len(seq)}

\* a CoursePurchase document that is not there (null)
NoPurchase ==
  [_id |-> 0, courseId |-> "", userId |-> "", amount |-> Zero, status |-> "", paymentId |-> 0]
NoSession == [id |-> 0, url |-> FALSE]
\* req.body of a request whose body could not be parsed (undefined)
NoEvent == [type |-> "", id |-> 0, amount_total |-> 0]
\* event.type, event.data.object.id, event.data.object.amount_total
Events ==
  {[type |-> "checkout.session.completed", id |-> i, amount_total |-> t] :
      i \in SessionIds, t \in AmountTotals}
  \cup {[type |-> "checkout.session.expired", id |-> i, amount_total |-> 0] : i \in SessionIds}
  \cup {[type |-> "payment_intent.succeeded", id |-> 0, amount_total |-> 0]}

\* process.env.WEBHOOK_ENDPOINT_SECRET
WebhookSecret == "whsec"
\* the HMAC of a payload under a secret
Sign(payload, secret) == <<payload, secret>>
\* JSON.stringify(value, null, 2); of undefined it is undefined
JSONstringify(value) == [json |-> value]
\* JSON.parse(text): ok is FALSE where it throws (undefined is no JSON text)
JSONparse(text) == [ok |-> text.json # NoEvent, value |-> text.json]
\* webhook requests: a body and the stripe-signature header sent with it, which the
\* provider computes from the body with the endpoint's secret and nobody else can
WebhookRequests ==
  {[body |-> b, stripeSignature |-> Sign(JSONstringify(b), k)] :
      b \in Events \cup {NoEvent}, k \in {WebhookSecret, "unknown"}}

VARIABLES
  coursePurchases,    \* the CoursePurchase collection: a set of documents
  coursePrice,        \* Course: coursePrice of each course
  enrolledStudents,   \* Course: enrolledStudents array of each course
  isPreviewFree,      \* Lecture: isPreviewFree of each lecture
  enrolledCourses,    \* User: enrolledCourses array of each user
  stripeSessions,     \* the checkout sessions the provider has created
  nextObjectId,       \* the _id the next constructed CoursePurchase gets
  co,                 \* createCheckoutSession: the invocation's locals and response
  wh,                 \* stripeWebhook: the invocation's locals and response, with
                      \* two history fields: redelivery (the event is the one the
                      \* previous invocation answered 200) and modified (the
                      \* invocation has changed a record)
  qy                  \* the query handlers: the invocation's locals and response

vars ==
  <<coursePurchases, coursePrice, enrolledStudents, isPreviewFree, enrolledCourses,
    stripeSessions, nextObjectId, co, wh, qy>>
stores == <<coursePurchases, coursePrice, enrolledStudents, isPreviewFree, enrolledCourses>>

coIdle ==
  [pc |-> "idle", userId |-> "", courseId |-> "", newPurchase |-> NoPurchase,
   convertedPrice |-> Zero, session |-> NoSession, status |-> 0, threw |-> FALSE]
whIdle ==
  [pc |-> "idle",
   req |-> [body |-> NoEvent, stripeSignature |-> Sign(JSONstringify(NoEvent), "unknown")],
   event |-> NoEvent, purchase |-> NoPurchase, status |-> 0, threw |-> FALSE,
   redelivery |-> FALSE, modified |-> FALSE]
qyIdle ==
  [pc |-> "idle", handler |-> "", userId |-> "", courseId |-> "", status |-> 0,
   purchased |-> FALSE, purchasedCourse |-> {}, threw |-> FALSE]

\* no handler is between its first step and its response
Quiescent ==
  /\ co.pc \in {"idle", "done"}
  /\ wh.pc \in {"idle", "done"}
  /\ qy.pc \in {"idle", "done"}
\* the record of an invocation that has ended is dropped when the next request arrives
Retire(r, idle) == IF r.pc = "done" THEN idle ELSE r

Init ==
  /\ coursePurchases = {}
  /\ coursePrice = CataloguePrice
  /\ enrolledStudents = [c \in CourseIds |-> <<>>]
  /\ isPreviewFree = [l \in LectureIds |-> FALSE]
  /\ enrolledCourses = [u \in UserIds |-> <<>>]
  /\ stripeSessions = {}
  /\ nextObjectId = 1
  /\ co = coIdle
  /\ wh = whIdle
  /\ qy = qyIdle

(***************************************************************************)
(* createCheckoutSession                                                   *)
(***************************************************************************)
\* convertedPrice of the catalogue's prices, evaluated once
CatalogueConvertedPrice == [c \in CourseIds |-> ConvertedPrice(CataloguePrice[c])] @@ <<>>

\* null, where a course is expected
NoCourse == ""
\* faulty variant of the lookup: a query that falls back to a course of the store
CourseFindFirst(courseId) == IF courseId \in CourseIds THEN courseId ELSE "c1"
\* Course.findById(courseId): the course, or NoCourse when none has the id
CourseFindById(courseId) == IF courseId \in CourseIds THEN courseId ELSE NoCourse

\* catch of createCheckoutSession: 500
createCheckoutSession_catch(call) == [call EXCEPT !.pc = "done", !.status = 500, !.threw = TRUE]

\* Course.findById(courseId), then the handler to its await of the provider
createCheckoutSession_findById(userId, courseId) ==
  /\ co.pc \in {"idle", "done"}
  /\ wh' = Retire(wh, whIdle)
  /\ qy' = Retire(qy, qyIdle)
  /\ UNCHANGED <<stores, stripeSessions>>
  /\ LET call == [coIdle EXCEPT !.userId = userId, !.courseId = courseId]
         course == CourseFindById(courseId)
     IN \/ \* the store throws
           /\ co' = createCheckoutSession_catch(call)
           /\ UNCHANGED nextObjectId
        \/ \* if (!course) return 404
           /\ course = NoCourse
           /\ co' = [call EXCEPT !.pc = "done", !.status = 404]
           /\ UNCHANGED nextObjectId
        \/ /\ course # NoCourse
           /\ nextObjectId <= MaxCheckouts
           /\ LET newPurchase ==
                    [_id |-> nextObjectId, courseId |-> courseId, userId |-> userId,
                     amount |-> coursePrice[course], status |-> "pending", paymentId |-> 0]
                  convertedPrice ==
                    IF coursePrice[course] = CataloguePrice[course]
                    THEN CatalogueConvertedPrice[course]
                    ELSE ConvertedPrice(coursePrice[course])
              IN co' = [call EXCEPT !.pc = "sessions.create", !.newPurchase = newPurchase,
                                    !.convertedPrice = convertedPrice]
           /\ nextObjectId' = nextObjectId + 1

\* faulty variant: the handler goes on to save() without the url check
SessionUrlUnchecked(session) == [co EXCEPT !.pc = "save", !.session = session]
\* if (!session.url) return 400; otherwise on to newPurchase.save()
SessionUrlChecked(session) ==
  IF session.url
  THEN [co EXCEPT !.pc = "save", !.session = session]
  ELSE [co EXCEPT !.pc = "done", !.session = session, !.status = 400]

\* faulty variant: the document is saved before the provider is called
createCheckoutSession_saveThenCreate ==
  /\ co.pc = "sessions.create"
  /\ coursePurchases' = coursePurchases \cup {co.newPurchase}
  /\ UNCHANGED <<coursePrice, enrolledStudents, isPreviewFree, enrolledCourses,
                 nextObjectId, wh, qy>>
  /\ \/ /\ co' = createCheckoutSession_catch(co)
        /\ UNCHANGED stripeSessions
     \/ \E url \in BOOLEAN :
          LET session == [id |-> Cardinality(stripeSessions) + 1, url |-> url]
          IN /\ stripeSessions' = stripeSessions \cup {session}
             /\ co' = SessionUrlChecked(session)

\* stripe.checkout.sessions.create(...), then the handler to newPurchase.save()
createCheckoutSession_sessionsCreate ==
  /\ co.pc = "sessions.create"
  /\ UNCHANGED <<stores, nextObjectId, wh, qy>>
  /\ \/ \* the provider call throws
        /\ co' = createCheckoutSession_catch(co)
        /\ UNCHANGED stripeSessions
     \/ \E url \in BOOLEAN :
          LET session == [id |-> Cardinality(stripeSessions) + 1, url |-> url]
          IN /\ stripeSessions' = stripeSessions \cup {session}
             /\ co' = SessionUrlChecked(session)

\* newPurchase.paymentId = session.id; newPurchase.save(); the 200 response
createCheckoutSession_save ==
  /\ co.pc = "save"
  /\ UNCHANGED <<coursePrice, enrolledStudents, isPreviewFree, enrolledCourses,
                 stripeSessions, nextObjectId, wh, qy>>
  /\ LET saved == [co.newPurchase EXCEPT !.paymentId = co.session.id]
     IN \/ \* the store throws
           /\ co' = createCheckoutSession_catch([co EXCEPT !.newPurchase = saved])
           /\ UNCHANGED coursePurchases
        \/ /\ coursePurchases' = coursePurchases \cup {saved}
           /\ co' = [co EXCEPT !.pc = "done", !.newPurchase = saved, !.status = 200]

(***************************************************************************)
(* stripeWebhook                                                           *)
(***************************************************************************)
\* stripe.webhooks.generateTestHeaderString({payload, secret}): a header that
\* carries the signature of payload under secret
generateTestHeaderString(payload, secret) == Sign(payload, secret)

\* stripe.webhooks.constructEvent(payload, header, secret): the event of the
\* payload when header is its signature under secret; ok is FALSE where it throws
constructEvent(payload, header, secret) ==
  [ok |-> header = Sign(payload, secret) /\ JSONparse(payload).ok,
   event |-> JSONparse(payload).value]

\* session.amount_total / 100
MainUnit(amount_total) == NumDiv(NumberOf(amount_total, 1), Hundred)
\* the same of the totals the events carry, evaluated once
MainUnitOf == [t \in AmountTotals \ {0} |-> MainUnit(t)] @@ <<>>

\* faulty variant: { $push: { field: x } }
Push(array, x) == Append(array, x)
\* { $addToSet: { field: x } }
AddToSet(array, x) == IF x \in Range(array) THEN array ELSE Append(array, x)

\* faulty variant: every type but checkout.session.expired enters the completed case
SwitchCompletedByDefault(call) ==
  IF call.event.type = "checkout.session.expired"
  THEN [call EXCEPT !.pc = "findOneAndDelete"]
  ELSE [call EXCEPT !.pc = "findOne"]
\* switch (event.type): the handler at the first await of the chosen case, or at
\* the 200 response in the default case
Switch(call) ==
  IF call.event.type = "checkout.session.completed"
  THEN [call EXCEPT !.pc = "findOne"]
  ELSE IF call.event.type = "checkout.session.expired"
  THEN [call EXCEPT !.pc = "findOneAndDelete"]
  ELSE [call EXCEPT !.pc = "done", !.status = 200]

\* the first try block and the switch, to the first await of the chosen case
stripeWebhook_constructEvent(req) ==
  /\ wh.pc \in {"idle", "done"}
  /\ co' = Retire(co, coIdle)
  /\ qy' = Retire(qy, qyIdle)
  /\ UNCHANGED <<stores, stripeSessions, nextObjectId>>
  /\ LET payloadString == JSONstringify(req.body)
         secret == WebhookSecret
         header == generateTestHeaderString(payloadString, secret)
         constructed == constructEvent(payloadString, header, secret)
         event == constructed.event
         start == [whIdle EXCEPT !.req = req]
     IN IF ~constructed.ok
        THEN wh' = [start EXCEPT !.pc = "done", !.status = 400]
        ELSE LET call ==
                   [start EXCEPT !.event = event,
                                 !.redelivery = wh.pc = "done" /\ wh.status = 200
                                                /\ wh.event = event]
             IN wh' = Switch(call)

\* faulty variant: the catch answers 400, as the catch of the first try block does
stripeWebhook_catch400 == wh' = [wh EXCEPT !.pc = "done", !.status = 400, !.threw = TRUE]
\* catch of the second try block: 500
stripeWebhook_catch == wh' = [wh EXCEPT !.pc = "done", !.status = 500, !.threw = TRUE]

\* faulty variant: the amount is set, the status is left as it was
AmountOnly(doc, session) ==
  [doc EXCEPT !.amount = IF session.amount_total # 0
                         THEN MainUnitOf[session.amount_total]
                         ELSE @]
\* if (session.amount_total) purchase.amount = session.amount_total / 100;
\* purchase.status = "completed"
MarkCompleted(doc, session) ==
  [doc EXCEPT !.amount = IF session.amount_total # 0
                         THEN MainUnitOf[session.amount_total]
                         ELSE @,
              !.status = "completed"]

\* faulty variant: a filter on a field no document has, which matches every document
FindOneUnfiltered(id) == coursePurchases
\* the documents CoursePurchase.findOne({paymentId: id}) may return: one of those
\* matching the filter
FindOneCandidates(id) == {doc \in coursePurchases : doc.paymentId = id}

\* CoursePurchase.findOne({paymentId: session.id}).populate("courseId"), then the
\* handler to its next await
stripeWebhook_findOne ==
  /\ wh.pc = "findOne"
  /\ UNCHANGED <<stores, stripeSessions, nextObjectId, co, qy>>
  /\ LET session == wh.event
         found == FindOneCandidates(session.id)
     IN \/ stripeWebhook_catch
        \/ /\ found = {}
           /\ wh' = [wh EXCEPT !.pc = "done", !.status = 404]
        \/ \E doc \in found :
             LET purchase == MarkCompleted(doc, session)
             IN wh' = [wh EXCEPT !.purchase = purchase,
                                 !.pc = IF Len(CourseLectures[doc.courseId]) > 0
                                        THEN "updateMany"
                                        ELSE "save"]

\* Lecture.updateMany({_id: {$in: lectures}}, {$set: {isPreviewFree: true}})
stripeWebhook_updateMany ==
  /\ wh.pc = "updateMany"
  /\ UNCHANGED <<coursePurchases, coursePrice, enrolledStudents, enrolledCourses,
                 stripeSessions, nextObjectId, co, qy>>
  /\ \/ stripeWebhook_catch /\ UNCHANGED isPreviewFree
     \/ /\ isPreviewFree' =
             [l \in LectureIds |->
                IF l \in Range(CourseLectures[wh.purchase.courseId])
                THEN TRUE
                ELSE isPreviewFree[l]]
        /\ wh' = [wh EXCEPT !.pc = "save",
                            !.modified = @ \/ isPreviewFree' # isPreviewFree]

\* purchase.save(): the document's modified paths are written; it throws when the
\* document is no longer in the collection
stripeWebhook_save ==
  /\ wh.pc = "save"
  /\ UNCHANGED <<coursePrice, enrolledStudents, isPreviewFree, enrolledCourses,
                 stripeSessions, nextObjectId, co, qy>>
  /\ \/ stripeWebhook_catch /\ UNCHANGED coursePurchases
     \/ \E doc \in coursePurchases :
          /\ doc._id = wh.purchase._id
          /\ coursePurchases' =
               (coursePurchases \ {doc}) \cup
                 {[doc EXCEPT !.amount = wh.purchase.amount, !.status = wh.purchase.status]}
          /\ wh' = [wh EXCEPT !.pc = "User.findByIdAndUpdate",
                              !.modified = @ \/ coursePurchases' # coursePurchases]

\* User.findByIdAndUpdate(userId, {$addToSet: {enrolledCourses: courseId}})
stripeWebhook_userUpdate ==
  /\ wh.pc = "User.findByIdAndUpdate"
  /\ UNCHANGED <<coursePurchases, coursePrice, enrolledStudents, isPreviewFree,
                 stripeSessions, nextObjectId, co, qy>>
  /\ \/ stripeWebhook_catch /\ UNCHANGED enrolledCourses
     \/ /\ enrolledCourses' =
             [enrolledCourses EXCEPT ![wh.purchase.userId] = AddToSet(@, wh.purchase.courseId)]
        /\ wh' = [wh EXCEPT !.pc = "Course.findByIdAndUpdate",
                            !.modified = @ \/ enrolledCourses' # enrolledCourses]

\* Course.findByIdAndUpdate(courseId, {$addToSet: {enrolledStudents: userId}}),
\* break, the 200 response
stripeWebhook_courseUpdate ==
  /\ wh.pc = "Course.findByIdAndUpdate"
  /\ UNCHANGED <<coursePurchases, coursePrice, isPreviewFree, enrolledCourses,
                 stripeSessions, nextObjectId, co, qy>>
  /\ \/ stripeWebhook_catch /\ UNCHANGED enrolledStudents
     \/ /\ enrolledStudents' =
             [enrolledStudents EXCEPT ![wh.purchase.courseId] = AddToSet(@, wh.purchase.userId)]
        /\ wh' = [wh EXCEPT !.pc = "done", !.status = 200,
                            !.modified = @ \/ enrolledStudents' # enrolledStudents]

\* faulty variant: a filter that matches every document
AnyDocument(id) == coursePurchases
\* the documents CoursePurchase.findOneAndDelete({paymentId: id}) may remove: one
\* of those matching the filter
DeleteCandidates(id) == {doc \in coursePurchases : doc.paymentId = id}

\* CoursePurchase.findOneAndDelete({paymentId: expiredSession.id}), break, the 200
\* response; wh.purchase keeps the document the store removed
stripeWebhook_findOneAndDelete ==
  /\ wh.pc = "findOneAndDelete"
  /\ UNCHANGED <<coursePrice, enrolledStudents, isPreviewFree, enrolledCourses,
                 stripeSessions, nextObjectId, co, qy>>
  /\ LET expiredSession == wh.event
     IN \/ stripeWebhook_catch /\ UNCHANGED coursePurchases
        \/ /\ DeleteCandidates(expiredSession.id) = {}
           /\ wh' = [wh EXCEPT !.pc = "done", !.status = 200]
           /\ UNCHANGED coursePurchases
        \/ \E doc \in DeleteCandidates(expiredSession.id) :
             /\ coursePurchases' = coursePurchases \ {doc}
             /\ wh' = [wh EXCEPT !.pc = "done", !.status = 200, !.purchase = doc,
                                 !.modified = TRUE]

(***************************************************************************)
(* The query handlers: each is read-only and answers after its last await. *)
(***************************************************************************)
\* faulty variant: only completed purchases count
PurchasedAndCompleted(userId, courseId) ==
  \E doc \in coursePurchases :
    doc.userId = userId /\ doc.courseId = courseId /\ doc.status = "completed"
\* !!purchased of CoursePurchase.findOne({userId, courseId})
Purchased(userId, courseId) ==
  \E doc \in coursePurchases : doc.userId = userId /\ doc.courseId = courseId

\* faulty variant: the catch answers 500
QueryCatch500(call) == [call EXCEPT !.threw = TRUE, !.status = 500]
\* catch of a query handler: console.log(error), and no response (status stays 0)
QueryCatch(call) == [call EXCEPT !.threw = TRUE]

getCourseDetailWithPurchaseStatus(userId, courseId) ==
  /\ qy.pc \in {"idle", "done"}
  /\ co' = Retire(co, coIdle)
  /\ wh' = Retire(wh, whIdle)
  /\ UNCHANGED <<stores, stripeSessions, nextObjectId>>
  /\ LET call == [qyIdle EXCEPT !.pc = "done",
                                !.handler = "getCourseDetailWithPurchaseStatus",
                                !.userId = userId, !.courseId = courseId]
     IN \/ \* a store operation throws
           qy' = QueryCatch(call)
        \/ /\ courseId \notin CourseIds
           /\ qy' = [call EXCEPT !.status = 404]
        \/ /\ courseId \in CourseIds
           /\ qy' = [call EXCEPT !.status = 200, !.purchased = Purchased(userId, courseId)]

\* CoursePurchase.find({status: "completed"}) is an array, never null: the 404
\* branch of the handler is not reachable
getAllPurchasedCourse ==
  /\ qy.pc \in {"idle", "done"}
  /\ co' = Retire(co, coIdle)
  /\ wh' = Retire(wh, whIdle)
  /\ UNCHANGED <<stores, stripeSessions, nextObjectId>>
  /\ LET call == [qyIdle EXCEPT !.pc = "done", !.handler = "getAllPurchasedCourse"]
     IN \/ \* the store throws
           qy' = QueryCatch(call)
        \/ qy' = [call EXCEPT !.status = 200,
                              !.purchasedCourse =
                                 {doc \in coursePurchases : doc.status = "completed"}]

(***************************************************************************)
(* Requests are served one at a time: a request arrives when no handler is *)
(* between its first step and its response.                                *)
(***************************************************************************)
Next ==
  \/ Quiescent /\ \E userId \in UserIds, courseId \in CourseIds \cup {UnknownCourseId} :
                    createCheckoutSession_findById(userId, courseId)
  \/ createCheckoutSession_sessionsCreate
  \/ createCheckoutSession_save
  \/ Quiescent /\ \E req \in WebhookRequests : stripeWebhook_constructEvent(req)
  \/ stripeWebhook_findOne
  \/ stripeWebhook_updateMany
  \/ stripeWebhook_save
  \/ stripeWebhook_userUpdate
  \/ stripeWebhook_courseUpdate
  \/ stripeWebhook_findOneAndDelete
  \/ Quiescent /\ \E userId \in UserIds, courseId \in CourseIds \cup {UnknownCourseId} :
                    getCourseDetailWithPurchaseStatus(userId, courseId)
  \/ Quiescent /\ getAllPurchasedCourse

Spec == Init /\ [][Next]_vars

(***************************************************************************)
(* The price conversion on its own: a catalogue whose course c1 has any of *)
(* the prices of PriceInputs, and the first step of one checkout.          *)
(***************************************************************************)
InitPrice ==
  /\ coursePurchases = {}
  /\ coursePrice \in {[CataloguePrice EXCEPT !["c1"] = p] : p \in PriceInputs}
  /\ enrolledStudents = [c \in CourseIds |-> <<>>]
  /\ isPreviewFree = [l \in LectureIds |-> FALSE]
  /\ enrolledCourses = [u \in UserIds |-> <<>>]
  /\ stripeSessions = {}
  /\ nextObjectId = 1
  /\ co = coIdle
  /\ wh = whIdle
  /\ qy = qyIdle

NextPrice ==
  /\ co.pc = "idle"
  /\ \E courseId \in CourseIds \cup {UnknownCourseId} :
       createCheckoutSession_findById("u1", courseId)

SpecPrice == InitPrice /\ [][NextPrice]_vars

(***************************************************************************)
(* createCheckoutSession and stripeWebhook without the one-at-a-time       *)
(* assumption: a request of either handler arrives whenever that handler   *)
(* has no invocation in progress, and the steps of the two invocations     *)
(* interleave at their awaits.  The requests are checkouts of the courses   *)
(* of the catalogue and the provider's own deliveries.                     *)
(***************************************************************************)
\* the requests the provider sends: an event, signed with the webhook secret
ProviderDeliveries ==
  {[body |-> b, stripeSignature |-> Sign(JSONstringify(b), WebhookSecret)] : b \in Events}

NextInterleaved ==
  \/ \E userId \in UserIds, courseId \in CourseIds :
       createCheckoutSession_findById(userId, courseId)
  \/ createCheckoutSession_sessionsCreate
  \/ createCheckoutSession_save
  \/ \E req \in ProviderDeliveries : stripeWebhook_constructEvent(req)
  \/ stripeWebhook_findOne
  \/ stripeWebhook_updateMany
  \/ stripeWebhook_save
  \/ stripeWebhook_userUpdate
  \/ stripeWebhook_courseUpdate
  \/ stripeWebhook_findOneAndDelete

SpecInterleaved == Init /\ [][NextInterleaved]_vars

(***************************************************************************)
(* Properties of the handlers.                                             *)
(***************************************************************************)
\* the documents of the store that the current checkout constructed
OwnPurchases == {doc \in coursePurchases : doc._id = co.newPurchase._id}

\* C1: for a course of the store, createCheckoutSession holds a Purchase with
\* status pending and amount = the course's price while it calls the provider;
\* no document of the invocation is in the store before the provider has returned
\* a session with a url; the document that is persisted carries that session's id.
C1_PendingUntilSessionUrl ==
  /\ co.pc \in {"sessions.create", "save"} =>
       /\ co.courseId \in CourseIds
       /\ co.newPurchase.status = "pending"
       /\ co.newPurchase.amount = coursePrice[co.courseId]
       /\ OwnPurchases = {}
  /\ co.pc = "save" => co.session.url /\ co.session \in stripeSessions
  /\ co.pc = "done" /\ OwnPurchases # {} =>
       /\ co.status = 200
       /\ co.session.url /\ co.session \in stripeSessions
       /\ OwnPurchases = {co.newPurchase}
       /\ co.newPurchase.paymentId = co.session.id
       /\ co.newPurchase.status = "pending"
       /\ co.newPurchase.amount = coursePrice[co.courseId]
C1_Witness ==
  /\ co.pc = "done" /\ co.status = 200
  /\ co.newPurchase \in coursePurchases
  /\ co.newPurchase.paymentId = co.session.id

\* C2: a checkout for a course id that no Course has ends at once: 404 when the
\* lookup returns (500 when the lookup itself throws), no Purchase is built or
\* stored and no provider session is requested.
C2_UnknownCourseNotFound ==
  [][\A userId \in UserIds :
       createCheckoutSession_findById(userId, UnknownCourseId) =>
         /\ co'.pc = "done"
         /\ co'.status = IF co'.threw THEN 500 ELSE 404
         /\ co'.newPurchase = NoPurchase
         /\ co'.session = NoSession
         /\ UNCHANGED <<coursePurchases, stripeSessions, nextObjectId>>]_vars
C2_Witness ==
  /\ co.pc = "done" /\ co.courseId = UnknownCourseId /\ co.status = 404
  /\ coursePurchases # {}

\* C3: when a checkout.session.completed event has been handled up to the 200
\* response, the Purchase of the event's session is completed, every lecture of
\* its course is a free preview, its course is among the user's enrolledCourses
\* and its user among the course's enrolledStudents.
C3_CompletedEventEffects ==
  wh.pc = "done" /\ wh.status = 200 /\ wh.event.type = "checkout.session.completed" =>
    /\ \E doc \in coursePurchases : doc.paymentId = wh.event.id
    /\ \A doc \in coursePurchases :
         doc.paymentId = wh.event.id =>
           /\ doc.status = "completed"
           /\ \A l \in Range(CourseLectures[doc.courseId]) : isPreviewFree[l]
           /\ doc.courseId \in Range(enrolledCourses[doc.userId])
           /\ doc.userId \in Range(enrolledStudents[doc.courseId])
C3_Witness ==
  /\ wh.pc = "done" /\ wh.status = 200 /\ ~wh.redelivery
  /\ wh.event.type = "checkout.session.completed"
  /\ wh.purchase.courseId = "c1"
  /\ isPreviewFree["l1"] /\ isPreviewFree["l2"]

NoDuplicates(array) == \A i, j \in 1..Len(array) : array[i] = array[j] => i = j

\* C4: while the same checkout.session.completed event is handled a second time
\* in a row, no step changes the Purchase, Lecture, User or Course store, and no
\* enrolledCourses or enrolledStudents array holds an entry twice.
C4_RedeliveryChangesNothing ==
  [][wh.redelivery /\ wh.event.type = "checkout.session.completed" =>
       /\ UNCHANGED stores
       /\ \A doc \in coursePurchases' : doc.paymentId = wh.event.id => doc.status = "completed"
       /\ \A u \in UserIds : NoDuplicates(enrolledCourses'[u])
       /\ \A c \in CourseIds : NoDuplicates(enrolledStudents'[c])]_vars
C4_Witness ==
  /\ wh.redelivery /\ wh.pc = "done" /\ wh.status = 200
  /\ wh.event.type = "checkout.session.completed"
  /\ enrolledCourses[wh.purchase.userId] # <<>>

\* C5: the step that handles a checkout.session.expired event removes exactly
\* the Purchases whose paymentId is the event's session id (none when there is
\* none) and answers 200, unless the store throws (500, nothing removed); the
\* Course, Lecture and User stores are unchanged.
C5_ExpiredEventEffects ==
  [][wh.pc = "findOneAndDelete" =>
       /\ wh'.pc = "done"
       /\ wh'.status = IF wh'.threw THEN 500 ELSE 200
       /\ coursePurchases' =
            IF wh'.threw
            THEN coursePurchases
            ELSE {doc \in coursePurchases : doc.paymentId # wh.event.id}
       /\ UNCHANGED <<coursePrice, enrolledStudents, isPreviewFree, enrolledCourses>>]_vars
C5_Witness ==
  /\ wh.pc = "done" /\ wh.status = 200 /\ wh.event.type = "checkout.session.expired"
  /\ wh.purchase.paymentId = wh.event.id
  /\ coursePurchases # {}

\* C6: a Purchase that is completed is never removed from the store: it is in the
\* store, completed, after every step.
C6_CompletedNeverRemoved ==
  [][\A doc \in coursePurchases :
       doc.status = "completed" =>
         \E kept \in coursePurchases' : kept._id = doc._id /\ kept.status = "completed"]_vars

\* C7: for a course of the store, getCourseDetailWithPurchaseStatus answers
\* purchased = true exactly when the store holds at least one Purchase of the
\* user and the course, of any status.
C7_PurchasedIffAnyRow ==
  qy.pc = "done" /\ qy.handler = "getCourseDetailWithPurchaseStatus" /\ qy.status = 200 =>
    /\ qy.courseId \in CourseIds
    /\ qy.purchased =
         (Cardinality({doc \in coursePurchases :
                         doc.userId = qy.userId /\ doc.courseId = qy.courseId}) >= 1)
C7_Witness ==
  /\ qy.pc = "done" /\ qy.handler = "getCourseDetailWithPurchaseStatus" /\ qy.status = 200
  /\ qy.purchased
  /\ \A doc \in coursePurchases : doc.status = "pending"

\* whether x is an integer
IsWhole(x) ==
  x.m = <<>> \/ x.e >= 0 \/ BigDivMod(x.m, BigShl(<<1>>, 0 - x.e)).r = <<>>
\* Math.round(x)
MathRound(x) == StringToNumber(ToFixed(x, 0))

\* C8: the unit_amount createCheckoutSession hands to the provider is a whole
\* number, the integer round((price / 3.32) * 100).
C8_UnitAmountIsRoundedInteger ==
  co.pc = "sessions.create" =>
    /\ IsWhole(co.convertedPrice)
    /\ co.convertedPrice =
         MathRound(NumMul(NumDiv(coursePrice[co.courseId], Divisor), Hundred))

\* C9: an event that passed verification is answered 500 exactly when an
\* operation threw during dispatch, 404 exactly when it is a
\* checkout.session.completed event whose session id no Purchase has, and 200
\* otherwise.
C9_WebhookResponses ==
  wh.pc = "done" /\ wh.event # NoEvent =>
    LET matching == {doc \in coursePurchases : doc.paymentId = wh.event.id}
        notFound == wh.event.type = "checkout.session.completed" /\ matching = {}
    IN wh.status = IF wh.threw THEN 500 ELSE IF notFound THEN 404 ELSE 200
C9_Witness ==
  /\ wh.pc = "done" /\ wh.event.type = "checkout.session.completed"
  /\ wh.status = 404 /\ coursePurchases # {}

\* whether the request carries the signature of its payload under the webhook secret
SignedByProvider(req) == req.stripeSignature = Sign(JSONstringify(req.body), WebhookSecret)

\* C10: while stripeWebhook handles a request whose payload the provider did not
\* sign with the webhook secret, no step changes a Purchase, Lecture, User or
\* Course record.
C10_UnsignedChangesNothing ==
  [][wh.pc \notin {"idle", "done"} /\ ~SignedByProvider(wh.req) => UNCHANGED stores]_vars

\* C11: a Purchase is completed in the store only through the save() of a
\* stripeWebhook invocation that handles a checkout.session.completed event for
\* the Purchase's own paymentId; a document that enters the store enters it
\* pending, and no step takes a completed Purchase back to pending.
C11_CompletedOnlyByWebhook ==
  [][\A doc \in coursePurchases' :
       LET before == {old \in coursePurchases : old._id = doc._id}
       IN /\ before = {} => doc.status = "pending" /\ co.pc = "save"
          /\ \A old \in before : old.status = "completed" => doc.status = "completed"
          /\ doc.status = "completed" /\ (\A old \in before : old.status # "completed") =>
               /\ wh.pc = "save"
               /\ wh.event.type = "checkout.session.completed"
               /\ wh.event.id = doc.paymentId]_vars
C11_Witness ==
  /\ wh.pc = "User.findByIdAndUpdate"
  /\ \E doc \in coursePurchases : doc.status = "completed" /\ doc.paymentId = wh.event.id
  /\ \E doc \in coursePurchases : doc.status = "pending"

\* C12: no two Purchases of the store share a paymentId, and at most one
\* Purchase of a (courseId, userId) pair is completed.
C12_OneCompletedPerPair ==
  \A d1, d2 \in coursePurchases :
    /\ d1.paymentId = d2.paymentId => d1 = d2
    /\ d1.status = "completed" /\ d2.status = "completed"
         /\ d1.courseId = d2.courseId /\ d1.userId = d2.userId => d1 = d2

\* C13: a checkout that ends because an operation threw (500) or because the
\* provider returned a session without a url (400) has put no document into the
\* Purchase store.
C13_PersistedOnlyOnSuccess ==
  co.pc = "done" /\ (co.threw \/ (co.session # NoSession /\ ~co.session.url)) =>
    /\ co.status = IF co.threw THEN 500 ELSE 400
    /\ OwnPurchases = {}
C13_Witness ==
  /\ co.pc = "done" /\ co.status = 400
  /\ co.newPurchase.status = "pending" /\ co.session \in stripeSessions
  /\ coursePurchases # {}

\* amount_total / 100 of a total in minor units, 0 for the total 0
InMainUnits(amount_total) == IF amount_total = 0 THEN Zero ELSE MainUnitOf[amount_total]

\* C14: when a checkout.session.completed event has been handled up to the 200
\* response, the amount of the Purchase of the event's session is the event's
\* amount_total / 100, for every total, 0 included.
C14_AmountIsReportedTotal ==
  wh.pc = "done" /\ wh.status = 200 /\ wh.event.type = "checkout.session.completed" =>
    \A doc \in coursePurchases :
      doc.paymentId = wh.event.id => doc.amount = InMainUnits(wh.event.amount_total)

\* C15: a verified event that is neither checkout.session.completed nor
\* checkout.session.expired is answered 200 in the step that receives it, and
\* that step changes no Purchase, Lecture, User or Course record.
C15_OtherEventsAcknowledged ==
  [][\A req \in WebhookRequests :
       /\ req.body # NoEvent
       /\ req.body.type \notin {"checkout.session.completed", "checkout.session.expired"}
       /\ stripeWebhook_constructEvent(req)
       => wh'.pc = "done" /\ wh'.status = 200 /\ wh'.event = req.body /\ UNCHANGED stores]_vars
C15_Witness ==
  /\ wh.pc = "done" /\ wh.status = 200
  /\ wh.event.type = "payment_intent.succeeded"
  /\ coursePurchases # {}

\* the Purchase the webhook invocation found is in the store, completed
PurchasePersistedCompleted ==
  \E doc \in coursePurchases : doc._id = wh.purchase._id /\ doc.status = "completed"

\* C16: the completion sequence is not atomic: at the awaits after purchase.save()
\* the Purchase is already in the store with status completed, and at the await
\* after User.findByIdAndUpdate the user's enrolledCourses already holds the
\* course, whatever becomes of the writes that are still to come.
C16_WritesTakeEffectOneByOne ==
  /\ wh.pc \in {"User.findByIdAndUpdate", "Course.findByIdAndUpdate"} =>
       PurchasePersistedCompleted
  /\ wh.pc = "Course.findByIdAndUpdate" =>
       wh.purchase.courseId \in Range(enrolledCourses[wh.purchase.userId])
\* the handler stopped between two writes: completed, yet not enrolled
C16_Witness ==
  /\ wh.pc = "done" /\ wh.threw
  /\ PurchasePersistedCompleted
  /\ \/ wh.purchase.courseId \notin Range(enrolledCourses[wh.purchase.userId])
     \/ wh.purchase.userId \notin Range(enrolledStudents[wh.purchase.courseId])

\* C17: a query handler in which a store operation throws sends no response
\* (status 0); on every other path it sends one response, 200 or, for
\* getCourseDetailWithPurchaseStatus of an unknown course, 404; neither handler
\* changes a Purchase, Lecture, User or Course record.
C17_QueryErrorsUnanswered ==
  [][(\/ getAllPurchasedCourse
      \/ \E userId \in UserIds, courseId \in CourseIds \cup {UnknownCourseId} :
           getCourseDetailWithPurchaseStatus(userId, courseId))
     => /\ UNCHANGED <<stores, stripeSessions, nextObjectId>>
        /\ qy'.pc = "done"
        /\ qy'.status =
             IF qy'.threw THEN 0
             ELSE IF qy'.handler = "getCourseDetailWithPurchaseStatus"
                     /\ qy'.courseId \notin CourseIds
             THEN 404
             ELSE 200]_vars
C17_Witness ==
  /\ qy.pc = "done" /\ qy.threw /\ qy.status = 0
  /\ qy.handler = "getAllPurchasedCourse"
  /\ coursePurchases # {}

\* C19: a stripeWebhook invocation that answers 400, 404 or 500 has changed no
\* Purchase, Lecture, User or Course record.
C19_NoChangeUnlessAcknowledged ==
  wh.pc = "done" /\ wh.status # 200 => ~wh.modified

\* C18: however the steps of a checkout and of a webhook invocation interleave,
\* the lookup for a checkout.session.completed event whose id is the id of the
\* session the checkout obtained from the provider (with a url) does not end in
\* the 404 answer.
C18_CompletedEventFindsPurchase ==
  [][/\ wh.pc = "findOne"
     /\ co.session.url /\ co.session.id = wh.event.id
     /\ co.pc = "save" \/ (co.pc = "done" /\ co.status = 200)
     => wh'.status # 404]_vars

====
